---------------------------- MODULE Spec2Model ----------------------------
(***************************************************************************)
(* A model of obsidian-worklog-gen (src/main.go): a batch CLI that reads a *)
(* Kanban board, extracts the checklist items of one column, files them    *)
(* into categories, writes per-category listings, asks a remote service    *)
(* for a summary of each category and writes a weekly report.              *)
(*                                                                         *)
(* Encoding.  A Go string is the sequence of its bytes, each byte a short  *)
(* TLA+ string: an ASCII byte is its character, and the three bytes of the *)
(* UTF-8 bullet glyph are "E2", "80", "A2".  A parsed document is the      *)
(* sequence of its nodes                                                   *)
(* in the pre-order in which ast.Walk enters them.  A category name is the *)
(* sequence of its "/"-separated segments, so that the path the program    *)
(* builds from it can be resolved against the directory tree.  A Go map    *)
(* is a function; ranging over it picks the remaining keys in any order.   *)
(***************************************************************************)
EXTENDS Integers, Sequences, FiniteSets, TLC

VARIABLES
    pc,                   \* position of main
    boardPath, column, outputFolder, apiKey, envKey,   \* flags, environment
    boardExists,          \* whether the board file is on disk
    preDirs,              \* directories on disk before the run
    now,                  \* [year, week] of time.Now()
    doc,                  \* the board as parsed: nodes in pre-order
    pos, foundTargetHeading, currentHeadingLevel,      \* the walk's state
    items, err,           \* extractColumnItems' results
    categories,           \* categorizeTitles' result
    dirs, files,          \* the filesystem: directories, path -> content
    boardRead,            \* the board file has been read
    todo,                 \* keys the running map range has not visited
    calls,                \* remote calls issued, with their outcomes
    summaries, sumErr,    \* summarizeByCategory's results
    sb,                   \* buildMarkdownSummary's string builder
    summary, summary2,    \* strings returned by buildMarkdownSummary
    text, bullets,        \* extractBulletPoints' argument and result
    exitStatus, exitMsg   \* process exit status and the fatal diagnostic

vars == << pc, boardPath, column, outputFolder, apiKey, envKey, boardExists,
           preDirs, now, doc, pos, foundTargetHeading, currentHeadingLevel,
           items, err, categories, dirs, files, boardRead, todo, calls,
           summaries, sumErr, sb, summary, summary2, text, bullets,
           exitStatus, exitMsg >>

inputVars == << boardPath, column, outputFolder, envKey, boardExists,
                preDirs, now, doc >>
walkVars == << pos, foundTargetHeading, currentHeadingLevel, items, err >>
fsVars == << dirs, files, boardRead >>
sumVars == << calls, summaries, sumErr >>
buildVars == << sb, summary, summary2 >>
bulletVars == << text, bullets >>
exitVars == << exitStatus, exitMsg >>

Nil == "nil"

-----------------------------------------------------------------------------
(* Bounds of the model.                                                    *)

\* nodes of a document whose structure varies
MaxNodes == 4
\* bytes of a list item whose text varies
MaxText == 6
\* titles given to categorizeTitles
MaxTitles == 3
\* checklist items of the board of a whole run
MaxCards == 2
\* lines of a reply text, and bullets of one summary
MaxLines == 2

-----------------------------------------------------------------------------
(* Go's strings package, on byte sequences.                                *)

Whitespace == {" ", "\t", "\n"}

IsSpace(c) == c \in Whitespace

SeqsUpTo(S, n) == UNION {[1..k -> S] : k \in 0..n}

\* s[from..] with a 0-based Go index
SliceFrom(s, from) == SubSeq(s, from + 1, Len(s))

HasPrefix(s, p) == Len(s) >= Len(p) /\ SubSeq(s, 1, Len(p)) = p

\* strings.Contains for a one-byte substring
Contains(s, c) == \E i \in 1..Len(s) : s[i] = c

\* strings.Index for a one-byte substring: 0-based, -1 when absent
Index(s, c) ==
    IF Contains(s, c)
    THEN (CHOOSE i \in 1..Len(s) : s[i] = c /\ \A j \in 1..(i-1) : s[j] # c) - 1
    ELSE -1

RECURSIVE TrimLeft(_)
TrimLeft(s) ==
    IF s # <<>> /\ IsSpace(Head(s)) THEN TrimLeft(Tail(s)) ELSE s

RECURSIVE TrimRight(_)
TrimRight(s) ==
    IF s # <<>> /\ IsSpace(s[Len(s)]) THEN TrimRight(SubSeq(s, 1, Len(s) - 1)) ELSE s

TrimSpace(s) == TrimRight(TrimLeft(s))

\* strings.Fields: the maximal runs of non-whitespace bytes
RECURSIVE FieldsFrom(_, _, _)
FieldsFrom(s, cur, acc) ==
    IF s = <<>>
    THEN IF cur = <<>> THEN acc ELSE Append(acc, cur)
    ELSE IF IsSpace(Head(s))
         THEN FieldsFrom(Tail(s), <<>>, IF cur = <<>> THEN acc ELSE Append(acc, cur))
         ELSE FieldsFrom(Tail(s), Append(cur, Head(s)), acc)

Fields(s) == FieldsFrom(s, <<>>, <<>>)

RECURSIVE Join(_, _)
Join(parts, sep) ==
    IF parts = <<>> THEN <<>>
    ELSE IF Len(parts) = 1 THEN parts[1]
    ELSE parts[1] \o sep \o Join(Tail(parts), sep)

\* strings.Split for a one-byte separator
RECURSIVE SplitFrom(_, _, _, _)
SplitFrom(s, sep, cur, acc) ==
    IF s = <<>> THEN Append(acc, cur)
    ELSE IF Head(s) = sep
         THEN SplitFrom(Tail(s), sep, <<>>, Append(acc, cur))
         ELSE SplitFrom(Tail(s), sep, Append(cur, Head(s)), acc)

Split(s, sep) == SplitFrom(s, sep, <<>>, <<>>)

\* strings.SplitN(s, sep, 2): cut at the first occurrence of sep
SplitN2(s, sep) ==
    LET hits == {i \in 1..(Len(s) - Len(sep) + 1) : SubSeq(s, i, i + Len(sep) - 1) = sep}
    IN  IF hits = {} THEN << s >>
        ELSE LET i == CHOOSE h \in hits : \A g \in hits : h <= g
             IN  << SubSeq(s, 1, i - 1), SubSeq(s, i + Len(sep), Len(s)) >>

UpperOf == [a |-> "A", b |-> "B", d |-> "D", e |-> "E", f |-> "F", g |-> "G",
            i |-> "I", l |-> "L", n |-> "N", p |-> "P", s |-> "S", t |-> "T",
            u |-> "U", r |-> "R"]

LowerByte(c) ==
    IF \E k \in DOMAIN UpperOf : UpperOf[k] = c
    THEN CHOOSE k \in DOMAIN UpperOf : UpperOf[k] = c
    ELSE c

ToLower(s) == [i \in 1..Len(s) |-> LowerByte(s[i])]

-----------------------------------------------------------------------------
(* Literal strings of the program and of the inputs.                       *)

Done == <<"D", "o", "n", "e">>
Todo == <<"T", "o", "d", "o">>
Backlog == <<"B", "a", "c", "k", "l", "o", "g">>

\* the category names of categorizeTitles, as "/"-separated segments
Features == << "features" >>
Bugs == << "bugs" >>
PlanningDesign == << "planning", "design" >>
Other == << "other" >>
CategoryNames == {Features, Bugs, PlanningDesign, Other}

-----------------------------------------------------------------------------
(* Documents: the nodes of the goldmark tree in pre-order.                 *)

Heading(l, t) == [kind |-> "Heading", level |-> l, text |-> t]
ListItem(t) == [kind |-> "ListItem", level |-> 0, text |-> t]
OtherNode == [kind |-> "Other", level |-> 0, text |-> <<>>]

-----------------------------------------------------------------------------
(* extractColumnItems                                                      *)

\* a heading of the target's level or shallower ends an open section
ClosesSection_Strict(found, cur, level) == found /\ level < cur
ClosesSection(found, cur, level) == found /\ level <= cur

\* only a level-2 heading whose trimmed text is the column name opens it
OpensSection_AnyLevel(node, columnName) == TrimSpace(node.text) = columnName
OpensSection(node, columnName) ==
    node.level = 2 /\ TrimSpace(node.text) = columnName

\* what a list item inside the section appends to items: nothing or one string
CheckboxPayload_KeepSpace(listItemText) ==
    IF Contains(listItemText, "[") /\ Contains(listItemText, "]")
    THEN LET checkboxIndex == Index(listItemText, "]")
         IN  IF checkboxIndex >= 0 /\ checkboxIndex + 1 < Len(listItemText)
             THEN LET itemText == TrimSpace(SliceFrom(listItemText, checkboxIndex + 1))
                  IN  IF itemText # <<>> THEN << itemText >> ELSE <<>>
             ELSE <<>>
    ELSE <<>>
CheckboxPayload(listItemText) ==
    IF Contains(listItemText, "[") /\ Contains(listItemText, "]")
    THEN LET checkboxIndex == Index(listItemText, "]")
         IN  IF checkboxIndex >= 0 /\ checkboxIndex + 1 < Len(listItemText)
             THEN LET itemText ==
                          Join(Fields(SliceFrom(listItemText, checkboxIndex + 1)), << " " >>)
                  IN  IF itemText # <<>> THEN << itemText >> ELSE <<>>
             ELSE <<>>
    ELSE <<>>

VisitHeading ==
    /\ pc = "walk"
    /\ pos <= Len(doc)
    /\ doc[pos].kind = "Heading"
    /\ IF ClosesSection(foundTargetHeading, currentHeadingLevel, doc[pos].level)
       THEN /\ pc' = "stopped"
            /\ UNCHANGED << pos, foundTargetHeading, currentHeadingLevel >>
       ELSE /\ pc' = pc
            /\ pos' = pos + 1
            /\ IF OpensSection(doc[pos], column)
               THEN /\ foundTargetHeading' = TRUE
                    /\ currentHeadingLevel' = doc[pos].level
               ELSE UNCHANGED << foundTargetHeading, currentHeadingLevel >>
    /\ UNCHANGED << items, err, apiKey, categories, todo >>
    /\ UNCHANGED << inputVars, fsVars, sumVars, buildVars, bulletVars, exitVars >>

VisitListItem ==
    /\ pc = "walk"
    /\ pos <= Len(doc)
    /\ doc[pos].kind = "ListItem"
    /\ items' = IF foundTargetHeading
                THEN items \o CheckboxPayload(doc[pos].text)
                ELSE items
    /\ pos' = pos + 1
    /\ UNCHANGED << pc, foundTargetHeading, currentHeadingLevel, err, apiKey,
                    categories, todo >>
    /\ UNCHANGED << inputVars, fsVars, sumVars, buildVars, bulletVars, exitVars >>

VisitOther ==
    /\ pc = "walk"
    /\ pos <= Len(doc)
    /\ doc[pos].kind = "Other"
    /\ pos' = pos + 1
    /\ UNCHANGED << pc, foundTargetHeading, currentHeadingLevel, items, err,
                    apiKey, categories, todo >>
    /\ UNCHANGED << inputVars, fsVars, sumVars, buildVars, bulletVars, exitVars >>

\* the walk is over (stopped, or every node entered): return
ExtractReturn ==
    /\ \/ pc = "stopped"
       \/ pc = "walk" /\ pos > Len(doc)
    /\ pc' = "extracted"
    /\ IF ~foundTargetHeading
       THEN err' = "column not found" /\ items' = <<>>
       ELSE err' = Nil /\ items' = items
    /\ UNCHANGED << pos, foundTargetHeading, currentHeadingLevel, apiKey,
                    categories, todo >>
    /\ UNCHANGED << inputVars, fsVars, sumVars, buildVars, bulletVars, exitVars >>

-----------------------------------------------------------------------------
(* categorizeTitles                                                        *)

NoCategories == [c \in CategoryNames |-> <<>>]

CategoryOf_NoLower(title) ==
    IF HasPrefix(title, <<"f", "e", "a", "t">>)
       \/ HasPrefix(title, <<"f", "e", "a", "t", "u", "r", "e">>)
    THEN Features
    ELSE IF HasPrefix(title, <<"b", "u", "g">>)
    THEN Bugs
    ELSE IF HasPrefix(title, <<"p", "l", "a", "n">>)
            \/ HasPrefix(title, <<"d", "e", "s", "i", "g", "n">>)
    THEN PlanningDesign
    ELSE Other
CategoryOf(title) ==
    LET titleLower == ToLower(title)
    IN  IF HasPrefix(titleLower, <<"f", "e", "a", "t">>)
           \/ HasPrefix(titleLower, <<"f", "e", "a", "t", "u", "r", "e">>)
        THEN Features
        ELSE IF HasPrefix(titleLower, <<"b", "u", "g">>)
        THEN Bugs
        ELSE IF HasPrefix(titleLower, <<"p", "l", "a", "n">>)
                \/ HasPrefix(titleLower, <<"d", "e", "s", "i", "g", "n">>)
        THEN PlanningDesign
        ELSE Other

\* the titles prepended to their bucket instead of appended
RECURSIVE CategorizeFrom_Reversed(_, _)
CategorizeFrom_Reversed(titles, cats) ==
    IF titles = <<>> THEN cats
    ELSE LET c == CategoryOf(Head(titles))
         IN  CategorizeFrom_Reversed(Tail(titles),
                                     [cats EXCEPT ![c] = << Head(titles) >> \o cats[c]])

RECURSIVE CategorizeFrom(_, _)
CategorizeFrom(titles, cats) ==
    IF titles = <<>> THEN cats
    ELSE LET c == CategoryOf(Head(titles))
         IN  CategorizeFrom(Tail(titles),
                            [cats EXCEPT ![c] = Append(cats[c], Head(titles))])

categorizeTitles(titles) == CategorizeFrom(titles, NoCategories)

-----------------------------------------------------------------------------
(* extractBulletPoints                                                     *)

\* the UTF-8 bytes of the bullet glyph U+2022 followed by a space
BulletGlyphSpace == << "E2", "80", "A2", " " >>
DashSpace == << "-", " " >>
DotSpace == << ".", " " >>

\* len(line) >= 2 && line[0] >= '1' && line[0] <= '9' && line[1] == '.'
IsNumbered(line) ==
    Len(line) >= 2 /\ line[1] \in {"1", "2", "3", "4", "5", "6", "7", "8", "9"}
                   /\ line[2] = "."

\* one iteration of the loop over the lines: nothing or one bullet
BulletOfLine(rawLine) ==
    LET line == TrimSpace(rawLine)
    IN  IF line = <<>> THEN <<>>
        ELSE IF HasPrefix(line, DashSpace) \/ HasPrefix(line, BulletGlyphSpace)
                \/ IsNumbered(line)
        THEN LET cleanLine ==
                     IF HasPrefix(line, DashSpace) THEN SliceFrom(line, 2)
                     ELSE IF HasPrefix(line, BulletGlyphSpace) THEN SliceFrom(line, 2)
                     ELSE LET parts == SplitN2(line, DotSpace)
                          IN  IF Len(parts) > 1 THEN parts[2] ELSE line
                 trimmed == TrimSpace(cleanLine)
             IN  IF trimmed # <<>> THEN << trimmed >> ELSE <<>>
        ELSE <<>>

RECURSIVE BulletsOfLines(_)
BulletsOfLines(lines) ==
    IF lines = <<>> THEN <<>>
    ELSE BulletOfLine(Head(lines)) \o BulletsOfLines(Tail(lines))

extractBulletPoints(t) == BulletsOfLines(Split(t, "\n"))

\* the call of extractBulletPoints on a reply text
ExtractBullets ==
    /\ pc = "bullets"
    /\ bullets' = extractBulletPoints(text)
    /\ pc' = "bulleted"
    /\ UNCHANGED << text, apiKey, categories, todo >>
    /\ UNCHANGED << inputVars, walkVars, fsVars, sumVars, buildVars, exitVars >>

-----------------------------------------------------------------------------
(* main, up to the category listings                                       *)

Exit(status, msg) ==
    /\ pc' = "exited"
    /\ exitStatus' = status
    /\ exitMsg' = msg

\* flag.Parse and the check of the three required flags
CheckFlags ==
    /\ pc = "flags"
    /\ IF boardPath = "" \/ column = <<>> \/ outputFolder = ""
       THEN Exit(1, << "flags required" >>)
       ELSE pc' = "stat" /\ UNCHANGED exitVars
    /\ UNCHANGED << apiKey, categories, todo >>
    /\ UNCHANGED << inputVars, walkVars, fsVars, sumVars, buildVars, bulletVars >>

StatBoard ==
    /\ pc = "stat"
    /\ IF ~boardExists
       THEN Exit(1, << "board does not exist" >>)
       ELSE pc' = "read" /\ UNCHANGED exitVars
    /\ UNCHANGED << apiKey, categories, todo >>
    /\ UNCHANGED << inputVars, walkVars, fsVars, sumVars, buildVars, bulletVars >>

\* os.ReadFile, then the call of extractColumnItems
ReadBoard ==
    /\ pc = "read"
    /\ \/ /\ Exit(1, << "failed to read board", "EIO" >>)
          /\ UNCHANGED boardRead
       \/ /\ boardRead' = TRUE
          /\ pc' = "walk"
          /\ UNCHANGED exitVars
    /\ UNCHANGED << dirs, files, apiKey, categories, todo >>
    /\ UNCHANGED << inputVars, walkVars, sumVars, buildVars, bulletVars >>

ExtractFatal ==
    /\ pc = "extracted"
    /\ err # Nil
    /\ Exit(1, << err >>)
    /\ UNCHANGED << apiKey, categories, todo >>
    /\ UNCHANGED << inputVars, walkVars, fsVars, sumVars, buildVars, bulletVars >>

Categorize ==
    /\ pc = "extracted"
    /\ err = Nil
    /\ categories' = categorizeTitles(items)
    /\ pc' = "mkdir"
    /\ UNCHANGED << apiKey, todo >>
    /\ UNCHANGED << inputVars, walkVars, fsVars, sumVars, buildVars, bulletVars,
                    exitVars >>

\* os.MkdirAll(outputFolder), then the range over categories starts
MkdirOutput ==
    /\ pc = "mkdir"
    /\ \/ /\ Exit(1, << "failed to create output folder", "EIO" >>)
          /\ UNCHANGED << dirs, todo >>
       \/ /\ dirs' = dirs \cup {<< outputFolder >>}
          /\ todo' = DOMAIN categories
          /\ pc' = "listing"
          /\ UNCHANGED exitVars
    /\ UNCHANGED << files, boardRead, apiKey, categories >>
    /\ UNCHANGED << inputVars, walkVars, sumVars, buildVars, bulletVars >>

\* fmt.Sprintf("%s/%s_items.txt", outputFolder, category): the segments of
\* the category name before its last "/" are directories under outputFolder
CategoryFile(folder, category) ==
    [dir |-> << folder >> \o SubSeq(category, 1, Len(category) - 1),
     base |-> << category[Len(category)], "_items.txt" >>]

\* the lines "%d. %s\n" written for the first n items
ListingLines(categoryItems, n) == [i \in 1..n |-> << i, categoryItems[i] >>]

\* one iteration of the range over categories in main
SaveCategory(category) ==
    /\ pc = "listing"
    /\ category \in todo
    /\ LET categoryItems == categories[category]
           categoryFile == CategoryFile(outputFolder, category)
       IN  IF Len(categoryItems) = 0
           THEN /\ todo' = todo \ {category}
                /\ UNCHANGED << pc, files, exitVars >>
           ELSE \/ /\ categoryFile.dir \notin dirs
                   /\ Exit(1, << "failed to create category file", "ENOENT" >>)
                   /\ UNCHANGED << files, todo >>
                \/ /\ categoryFile.dir \in dirs
                   /\ Exit(1, << "failed to create category file", "EIO" >>)
                   /\ UNCHANGED << files, todo >>
                \/ /\ categoryFile.dir \in dirs
                   /\ \E k \in 1..Len(categoryItems) :
                          files' = (categoryFile :> ListingLines(categoryItems, k - 1)) @@ files
                   /\ Exit(1, << "failed to write to category file", "EIO" >>)
                   /\ UNCHANGED todo
                \/ /\ categoryFile.dir \in dirs
                   /\ files' = (categoryFile :> ListingLines(categoryItems, Len(categoryItems)))
                                   @@ files
                   /\ todo' = todo \ {category}
                   /\ UNCHANGED << pc, exitVars >>
    /\ UNCHANGED << dirs, boardRead, apiKey, categories >>
    /\ UNCHANGED << inputVars, walkVars, sumVars, buildVars, bulletVars >>

\* after the listings: the key from the flag, else from the environment
CheckCredential_ExitZero ==
    /\ pc = "listing"
    /\ todo = {}
    /\ apiKey' = IF apiKey = "" THEN envKey ELSE apiKey
    /\ IF apiKey' = ""
       THEN Exit(0, << "no API key" >>)
       ELSE pc' = "summarize" /\ UNCHANGED exitVars
    /\ UNCHANGED << categories, todo >>
    /\ UNCHANGED << inputVars, walkVars, fsVars, sumVars, buildVars, bulletVars >>
CheckCredential ==
    /\ pc = "listing"
    /\ todo = {}
    /\ apiKey' = IF apiKey = "" THEN envKey ELSE apiKey
    /\ IF apiKey' = ""
       THEN Exit(1, << "no API key" >>)
       ELSE pc' = "summarize" /\ UNCHANGED exitVars
    /\ UNCHANGED << categories, todo >>
    /\ UNCHANGED << inputVars, walkVars, fsVars, sumVars, buildVars, bulletVars >>

-----------------------------------------------------------------------------
(* summarizeByCategory                                                     *)

\* replies of the remote service that the model draws from
ReplyBullet == << "-", " ", "a" >>
ReplyProse == << "o", "k" >>
RemoteOutcomes ==
    { [kind |-> "error", text |-> <<>>], [kind |-> "nochoices", text |-> <<>>],
      [kind |-> "reply", text |-> ReplyBullet], [kind |-> "reply", text |-> ReplyProse] }

\* the call from main and the function's entry, up to its range loop
SummarizeEnter ==
    /\ pc = "summarize"
    /\ IF apiKey = ""
       THEN /\ summaries' = << >>
            /\ sumErr' = "API key is required"
            /\ pc' = "summarized"
            /\ UNCHANGED todo
       ELSE /\ summaries' = << >>
            /\ sumErr' = Nil
            /\ todo' = DOMAIN categories
            /\ pc' = "sumloop"
    /\ UNCHANGED << calls, apiKey, categories >>
    /\ UNCHANGED << inputVars, walkVars, fsVars, buildVars, bulletVars, exitVars >>

\* whether the loop skips a category without calling the service
SkipsCategory_Never(titles) == FALSE
SkipsCategory(titles) == Len(titles) = 0

\* whether the loop goes on after a call with this outcome
CallSucceeded(outcome) == outcome.kind = "reply"

\* one iteration of the range over categories in summarizeByCategory
SummarizeCategory(category) ==
    /\ pc = "sumloop"
    /\ category \in todo
    /\ LET titles == categories[category]
       IN  IF SkipsCategory(titles)
           THEN /\ todo' = todo \ {category}
                /\ UNCHANGED << pc, calls, summaries, sumErr >>
           ELSE \E outcome \in RemoteOutcomes :
                  /\ calls' = Append(calls, [category |-> category, titles |-> titles,
                                             outcome |-> outcome.kind])
                  /\ IF CallSucceeded(outcome)
                     THEN /\ summaries' = (category :> extractBulletPoints(outcome.text))
                                              @@ summaries
                          /\ todo' = todo \ {category}
                          /\ UNCHANGED << pc, sumErr >>
                     ELSE /\ summaries' = << >>
                          /\ sumErr' = outcome.kind
                          /\ pc' = "summarized"
                          /\ UNCHANGED todo
    /\ UNCHANGED << apiKey, categories >>
    /\ UNCHANGED << inputVars, walkVars, fsVars, buildVars, bulletVars, exitVars >>

SummarizeReturn ==
    /\ pc = "sumloop"
    /\ todo = {}
    /\ pc' = "summarized"
    /\ UNCHANGED << apiKey, categories, todo >>
    /\ UNCHANGED << inputVars, walkVars, fsVars, sumVars, buildVars, bulletVars,
                    exitVars >>

SummarizeFatal ==
    /\ pc = "summarized"
    /\ sumErr # Nil
    /\ Exit(1, << "failed to generate summaries" >>)
    /\ UNCHANGED << apiKey, categories, todo >>
    /\ UNCHANGED << inputVars, walkVars, fsVars, sumVars, buildVars, bulletVars >>

-----------------------------------------------------------------------------
(* buildMarkdownSummary and saveWorklog                                    *)

HeaderPiece(year, week) == [op |-> "## Week %d %d\n\n", arg |-> << week, year >>]

\* what one iteration of the range over summaries writes to the builder
CategoryBlock(category, categoryBullets) ==
    IF Len(categoryBullets) = 0 THEN <<>>
    ELSE << [op |-> "%s\n", arg |-> category] >>
         \o [i \in 1..Len(categoryBullets) |-> [op |-> "- %s\n", arg |-> categoryBullets[i]]]
         \o << [op |-> "\n", arg |-> <<>>] >>

\* the call from main and the function's entry, up to its range loop
BuildEnter ==
    /\ pc = "summarized"
    /\ sumErr = Nil
    /\ sb' = << HeaderPiece(now.year, now.week) >>
    /\ todo' = DOMAIN summaries
    /\ pc' = "build"
    /\ UNCHANGED << summary, summary2, apiKey, categories >>
    /\ UNCHANGED << inputVars, walkVars, fsVars, sumVars, bulletVars, exitVars >>

BuildCategory(category) ==
    /\ pc \in {"build", "build2"}
    /\ category \in todo
    /\ sb' = sb \o CategoryBlock(category, summaries[category])
    /\ todo' = todo \ {category}
    /\ UNCHANGED << pc, summary, summary2, apiKey, categories >>
    /\ UNCHANGED << inputVars, walkVars, fsVars, sumVars, bulletVars, exitVars >>

BuildReturn ==
    /\ pc \in {"build", "build2"}
    /\ todo = {}
    /\ IF pc = "build"
       THEN summary' = sb /\ pc' = "save" /\ UNCHANGED summary2
       ELSE summary2' = sb /\ pc' = "built2" /\ UNCHANGED summary
    /\ UNCHANGED << sb, apiKey, categories, todo >>
    /\ UNCHANGED << inputVars, walkVars, fsVars, sumVars, bulletVars, exitVars >>

\* a second call of buildMarkdownSummary with the same arguments
BuildAgain ==
    /\ pc = "save"
    /\ sb' = << HeaderPiece(now.year, now.week) >>
    /\ todo' = DOMAIN summaries
    /\ pc' = "build2"
    /\ UNCHANGED << summary, summary2, apiKey, categories >>
    /\ UNCHANGED << inputVars, walkVars, fsVars, sumVars, bulletVars, exitVars >>

WorklogFile(folder, year, week) ==
    [dir |-> << folder >>, base |-> << "worklog-week-", week, "-", year, ".md" >>]

saveWorklog ==
    /\ pc = "save"
    /\ \/ /\ Exit(1, << "failed to save worklog", "EIO" >>)
          /\ UNCHANGED << dirs, files >>
       \/ /\ dirs' = dirs \cup {<< outputFolder >>}
          /\ Exit(1, << "failed to save worklog", "EIO" >>)
          /\ UNCHANGED files
       \/ /\ dirs' = dirs \cup {<< outputFolder >>}
          /\ files' = (WorklogFile(outputFolder, now.year, now.week) :> summary) @@ files
          /\ Exit(0, << "SUCCESS" >>)
    /\ UNCHANGED << boardRead, apiKey, categories, todo >>
    /\ UNCHANGED << inputVars, walkVars, sumVars, buildVars, bulletVars >>

-----------------------------------------------------------------------------
(* Inputs.                                                                 *)

ItemA == << "[", "x", "]", " ", "a" >>
ItemB == << "[", " ", "]", " ", "b" >>

NodeSet ==
    { Heading(1, Done), Heading(2, Done), Heading(2, Todo), Heading(3, Done),
      ListItem(ItemA), ListItem(ItemB), OtherNode }

\* documents that vary the structure
StructDocs == SeqsUpTo(NodeSet, MaxNodes)

\* documents that vary the text of the level-2 heading
HeadingTexts ==
    { Done, << " " >> \o Done \o << "\t" >>, << "d", "o", "n", "e" >>,
      << "D", "o", " ", "n", "e" >>, Done \o << "x" >>, << >> }
HeadingDocs == { << Heading(2, t), ListItem(ItemA) >> : t \in HeadingTexts }

\* documents that vary the text of a list item of the section
ItemAlphabet == { "[", "]", " ", "a" }
TabbedItem == << "[", "x", "]", "\t", "a", " ", "\t", "\n", "b", " " >>
ItemDocs ==
    { << Heading(2, Done), ListItem(t) >> :
          t \in SeqsUpTo(ItemAlphabet, MaxText) \cup {TabbedItem} }

\* a document with items before the section, a level-3 heading inside it and
\* a second section of the same name after it
NestedDoc ==
    << Heading(1, Done), ListItem(ItemB), Heading(2, Done), ListItem(ItemA),
       Heading(3, Done), ListItem(ItemB), Heading(2, Done), ListItem(ItemA) >>

\* the board of the end-to-end scenario
FeatItem == <<"#", "f", "e", "a", "t", " ", "A", "d", "d", " ", "c", "a", "c", "h", "i", "n", "g", " ", "l", "a", "y", "e", "r">>
BugItem == <<"#", "b", "u", "g", " ", "F", "i", "x", " ", "r", "a", "c", "e", " ", "c", "o", "n", "d", "i", "t", "i", "o", "n">>
ScopeItem == <<"N", "o", "t", " ", "i", "n", " ", "s", "c", "o", "p", "e">>
Board ==
    << Heading(2, Done), OtherNode,
       ListItem(<< "[", "x", "]", " " >> \o FeatItem), OtherNode,
       ListItem(<< "[", "x", "]", " " >> \o BugItem), OtherNode,
       Heading(2, Backlog), OtherNode,
       ListItem(<< "[", " ", "]", " " >> \o ScopeItem), OtherNode >>

\* the (board, column) pairs extractColumnItems is run on
ExtractInputs ==
    (StructDocs \X {Done, Todo})
    \cup ((HeadingDocs \cup ItemDocs \cup {Board, NestedDoc}) \X {Done})

TitleSet ==
    { << "f", "e", "a", "t" >>, << "F", "e", "a", "t", "u", "r", "e" >>,
      << "b", "u", "g" >>, << "B", "U", "G", "s" >>,
      << "p", "l", "a", "n" >>, << "D", "e", "s", "i", "g", "n" >>,
      << "#", "f", "e", "a", "t" >>, << "f", "e", "a" >>,
      << " ", "b", "u", "g" >>, << "d", "e", "b", "u", "g" >> }

CardTexts ==
    { << "[", "x", "]", " ", "f", "e", "a", "t" >>, << "[", " ", "]", " ", "b", "u", "g" >>,
      << "[", "x", "]", " ", "p", "l", "a", "n" >>, << "[", "x", "]", " ", "z", "z" >> }
MainDocs ==
    { << Heading(2, Done), OtherNode >> \o cards :
          cards \in SeqsUpTo({ListItem(c) : c \in CardTexts}, MaxCards) }
    \cup { << Heading(2, Todo), ListItem(ItemA) >> }

ReplyLines ==
    { << "S", "u", "m", "." >>, << "-", " ", "P", "t" >>, << " ", "-", " ", "a", " " >>,
      << "-", " " >>, << "-", "a" >>, << >>,
      << "E2", "80", "A2", " ", "b" >>, << "1", ".", " ", "c" >>, << "2", ".", "d" >>,
      << "1", "0", ".", " ", "e" >>, << "0", ".", " ", "f" >>, << "3", ".", "x", ".", " ", "y" >> }
ReplyTexts == { Join(ls, << "\n" >>) : ls \in SeqsUpTo(ReplyLines, MaxLines) \ {<<>>} }

SummaryMaps ==
    UNION { [ks -> SeqsUpTo({<< "a" >>}, MaxLines)] : ks \in SUBSET CategoryNames }

-----------------------------------------------------------------------------
(* Initial states and specifications.                                      *)

IdleInputs ==
    /\ boardPath = "board.md" /\ outputFolder = "out" /\ envKey = ""
    /\ boardExists = TRUE /\ preDirs = {}
    /\ now = [year |-> 2024, week |-> 5]
IdleWalk ==
    /\ pos = 1 /\ foundTargetHeading = FALSE /\ currentHeadingLevel = 0
    /\ items = <<>> /\ err = Nil
IdleRest ==
    /\ apiKey = "" /\ categories = NoCategories /\ todo = {}
    /\ files = << >> /\ calls = << >> /\ summaries = << >> /\ sumErr = Nil
    /\ sb = << >> /\ summary = << >> /\ summary2 = << >>
    /\ text = << >> /\ bullets = << >>
    /\ exitStatus = -1 /\ exitMsg = << >>

\* extractColumnItems and categorizeTitles on a family of documents
InitExtract ==
    /\ pc = "walk"
    /\ \E input \in ExtractInputs : doc = input[1] /\ column = input[2]
    /\ IdleInputs /\ IdleWalk /\ IdleRest
    /\ dirs = preDirs /\ boardRead = TRUE

NextExtract ==
    \/ VisitHeading
    \/ VisitListItem
    \/ VisitOther
    \/ ExtractReturn
    \/ ExtractFatal
    \/ Categorize

SpecExtract == InitExtract /\ [][NextExtract]_vars

\* categorizeTitles on a family of title sequences
InitCategorize ==
    /\ pc = "extracted"
    /\ doc = << >> /\ column = Done
    /\ items \in SeqsUpTo(TitleSet, MaxTitles)
    /\ pos = 1 /\ foundTargetHeading = TRUE /\ currentHeadingLevel = 2 /\ err = Nil
    /\ IdleInputs /\ IdleRest
    /\ dirs = preDirs /\ boardRead = TRUE

NextCategorize == Categorize

SpecCategorize == InitCategorize /\ [][NextCategorize]_vars

\* extractBulletPoints on a family of reply texts
InitBullets ==
    /\ pc = "bullets"
    /\ doc = << >> /\ column = Done
    /\ IdleInputs /\ IdleWalk
    /\ apiKey = "" /\ categories = NoCategories /\ todo = {}
    /\ files = << >> /\ calls = << >> /\ summaries = << >> /\ sumErr = Nil
    /\ sb = << >> /\ summary = << >> /\ summary2 = << >>
    /\ text \in ReplyTexts /\ bullets = << >>
    /\ exitStatus = -1 /\ exitMsg = << >>
    /\ dirs = preDirs /\ boardRead = FALSE

NextBullets == ExtractBullets

SpecBullets == InitBullets /\ [][NextBullets]_vars

\* buildMarkdownSummary, called twice on a family of summaries
InitBuild ==
    /\ pc = "summarized"
    /\ doc = << >> /\ column = Done
    /\ boardPath = "board.md" /\ outputFolder = "out" /\ envKey = ""
    /\ boardExists = TRUE /\ preDirs = {}
    /\ now \in {[year |-> 2024, week |-> 5], [year |-> 2025, week |-> 52]}
    /\ IdleWalk
    /\ apiKey = "key" /\ categories = NoCategories /\ todo = {}
    /\ files = << >> /\ calls = << >> /\ sumErr = Nil
    /\ summaries \in SummaryMaps
    /\ sb = << >> /\ summary = << >> /\ summary2 = << >>
    /\ text = << >> /\ bullets = << >>
    /\ exitStatus = -1 /\ exitMsg = << >>
    /\ dirs = preDirs /\ boardRead = TRUE

NextBuild ==
    \/ BuildEnter
    \/ \E category \in CategoryNames : BuildCategory(category)
    \/ BuildReturn
    \/ BuildAgain

SpecBuild == InitBuild /\ [][NextBuild]_vars

\* the whole program
Init ==
    /\ pc = "flags"
    /\ boardPath \in {"", "board.md"}
    /\ column \in {<< >>, Done}
    /\ outputFolder \in {"", "out"}
    /\ apiKey \in {"", "key"}
    /\ envKey \in {"", "envkey"}
    /\ boardExists \in BOOLEAN
    /\ preDirs \in { {}, {<< "out" >>, << "out", "planning" >>} }
    /\ now = [year |-> 2024, week |-> 5]
    /\ doc \in MainDocs
    /\ IdleWalk
    /\ categories = NoCategories /\ todo = {}
    /\ files = << >> /\ calls = << >> /\ summaries = << >> /\ sumErr = Nil
    /\ sb = << >> /\ summary = << >> /\ summary2 = << >>
    /\ text = << >> /\ bullets = << >>
    /\ exitStatus = -1 /\ exitMsg = << >>
    /\ dirs = preDirs /\ boardRead = FALSE

Next ==
    \/ CheckFlags
    \/ StatBoard
    \/ ReadBoard
    \/ VisitHeading
    \/ VisitListItem
    \/ VisitOther
    \/ ExtractReturn
    \/ ExtractFatal
    \/ Categorize
    \/ MkdirOutput
    \/ \E category \in CategoryNames : SaveCategory(category)
    \/ CheckCredential
    \/ SummarizeEnter
    \/ \E category \in CategoryNames : SummarizeCategory(category)
    \/ SummarizeReturn
    \/ SummarizeFatal
    \/ BuildEnter
    \/ \E category \in CategoryNames : BuildCategory(category)
    \/ BuildReturn
    \/ saveWorklog

Spec == Init /\ [][Next]_vars

-----------------------------------------------------------------------------
(* Properties of extractColumnItems (checked under SpecExtract).           *)

HasNonSpace(s) == \E i \in 1..Len(s) : ~IsSpace(s[i])

\* the text after the first "]" of t
AfterFirstClose(t) ==
    LET i == CHOOSE k \in 1..Len(t) : t[k] = "]" /\ \A j \in 1..(k - 1) : t[j] # "]"
    IN  SubSeq(t, i + 1, Len(t))

\* every run of whitespace replaced by one space, byte by byte
RECURSIVE CollapseRuns(_)
CollapseRuns(s) ==
    IF s = <<>> THEN <<>>
    ELSE IF IsSpace(Head(s))
         THEN IF Len(s) > 1 /\ IsSpace(s[2])
              THEN CollapseRuns(Tail(s))
              ELSE << " " >> \o CollapseRuns(Tail(s))
         ELSE << Head(s) >> \o CollapseRuns(Tail(s))

Normalized(s) ==
    LET c == CollapseRuns(s)
        l == IF c # <<>> /\ c[1] = " " THEN Tail(c) ELSE c
    IN  IF l # <<>> /\ l[Len(l)] = " " THEN SubSeq(l, 1, Len(l) - 1) ELSE l

\* what the stated rule says a list item of the section contributes
Contribution(t) ==
    IF Contains(t, "[") /\ Contains(t, "]") /\ HasNonSpace(AfterFirstClose(t))
    THEN << Normalized(AfterFirstClose(t)) >>
    ELSE <<>>

IsOpening(d, H, i) ==
    d[i].kind = "Heading" /\ d[i].level = 2 /\ TrimSpace(d[i].text) = H

HasSection(d, H) == \E i \in 1..Len(d) : IsOpening(d, H, i)

\* index of the first level-2 heading named H
SectionStart(d, H) ==
    CHOOSE i \in 1..Len(d) : IsOpening(d, H, i) /\ \A j \in 1..(i - 1) : ~IsOpening(d, H, j)

\* index of the first later heading of level <= 2, or one past the end
SectionEnd(d, H) ==
    LET closers == {j \in (SectionStart(d, H) + 1)..Len(d) :
                        d[j].kind = "Heading" /\ d[j].level <= 2}
    IN  IF closers = {} THEN Len(d) + 1
        ELSE CHOOSE j \in closers : \A k \in closers : j <= k

RECURSIVE ContributionsBetween(_, _, _)
ContributionsBetween(d, from, to) ==
    IF from > to THEN <<>>
    ELSE (IF d[from].kind = "ListItem" THEN Contribution(d[from].text) ELSE <<>>)
         \o ContributionsBetween(d, from + 1, to)

SectionItems(d, H) ==
    ContributionsBetween(d, SectionStart(d, H) + 1, SectionEnd(d, H) - 1)

\* C1: when extractColumnItems succeeds, its result is exactly the checklist
\* payloads of the list items after the first level-2 heading named H and
\* before the first later heading of level <= 2 (or the end), in document
\* order; items outside those boundaries are not in it, and a heading of
\* level >= 3 inside the section does not end collection.
C1_SectionItemsOnly ==
    (pc = "extracted" /\ err = Nil) => items = SectionItems(doc, column)

\* a successful extraction of a document with a list item before the section,
\* a level-3 heading inside it followed by an item, and a later section of the
\* same name holding an item
C1_Witness ==
    /\ pc = "extracted" /\ err = Nil /\ Len(items) = 2
    /\ \E i \in 1..Len(doc) : i < SectionStart(doc, column) /\ doc[i].kind = "ListItem"
    /\ \E i \in 1..Len(doc) :
          /\ SectionStart(doc, column) < i /\ i < SectionEnd(doc, column) - 1
          /\ doc[i].kind = "Heading" /\ doc[i].level = 3
          /\ doc[i + 1].kind = "ListItem"
    /\ SectionEnd(doc, column) < Len(doc)
    /\ IsOpening(doc, column, SectionEnd(doc, column))
    /\ doc[SectionEnd(doc, column) + 1].kind = "ListItem"

\* C2: extractColumnItems returns the "column not found" error if and only
\* if the document has no level-2 heading whose trimmed text equals the name;
\* an empty matching section returns no items and no error, and a level-1
\* heading before the section does not cause an error.
C2_NotFoundIffNoHeading ==
    pc = "extracted" =>
        /\ (err # Nil) <=> ~HasSection(doc, column)
        /\ (err # Nil) => err = "column not found"

\* an empty section behind a level-1 heading: no items, no error
C2_Witness ==
    /\ pc = "extracted" /\ err = Nil /\ items = <<>>
    /\ Len(doc) >= 2 /\ doc[1].kind = "Heading" /\ doc[1].level = 1
    /\ SectionStart(doc, column) = 2

StepsOnOpenListItem ==
    pc = "walk" /\ pos <= Len(doc) /\ doc[pos].kind = "ListItem" /\ foundTargetHeading

\* C3: a list item visited while the section is open contributes exactly one
\* string if its text has "[" and "]" and a non-whitespace byte after the
\* first "]", namely the text after the first "]" with whitespace runs
\* collapsed and the ends trimmed, and contributes nothing otherwise; so
\* every extracted item is non-empty and whitespace-normalized.
C3_ListItemContribution ==
    /\ [][StepsOnOpenListItem => items' = items \o Contribution(doc[pos].text)]_vars
    /\ [](\A i \in 1..Len(items) : items[i] # <<>> /\ items[i] = Normalized(items[i]))

\* a list item whose payload needed its whitespace collapsed has been visited
C3_Witness ==
    /\ pc = "walk" /\ pos = 3 /\ foundTargetHeading
    /\ doc[2].kind = "ListItem"
    /\ Len(items) = 1
    /\ items[1] # TrimSpace(AfterFirstClose(doc[2].text))

-----------------------------------------------------------------------------
(* Properties of categorizeTitles.                                         *)

\* the lowercased title starts with the literal p
LowerPrefixIs(t, p) ==
    Len(t) >= Len(p) /\ \A i \in 1..Len(p) : LowerByte(t[i]) = p[i]

Bucket(t) ==
    IF LowerPrefixIs(t, << "f", "e", "a", "t" >>) THEN Features
    ELSE IF LowerPrefixIs(t, << "b", "u", "g" >>) THEN Bugs
    ELSE IF LowerPrefixIs(t, << "p", "l", "a", "n" >>)
            \/ LowerPrefixIs(t, << "d", "e", "s", "i", "g", "n" >>) THEN PlanningDesign
    ELSE Other

ItemsOfBucket(ts, c) ==
    LET InBucket(t) == Bucket(t) = c
    IN  SelectSeq(ts, InBucket)

\* C4: categorizeTitles returns a map with exactly the four keys, in which
\* every input item occurrence is in exactly one bucket, the one its
\* lowercased literal prefix selects, in its input order (SpecCategorize).
C4_CategorizePartition ==
    pc = "mkdir" =>
        /\ DOMAIN categories = {Features, Bugs, PlanningDesign, Other}
        /\ \A c \in DOMAIN categories : categories[c] = ItemsOfBucket(items, c)

\* three titles, two of them different features, and no bug
C4_Witness ==
    /\ pc = "mkdir" /\ Len(items) = 3
    /\ Len(categories[Features]) = 2
    /\ categories[Features][1] # categories[Features][2]
    /\ categories[Bugs] = <<>>

\* C5 as stated: on the scenario board with column Done extraction yields the
\* two Done items, and categorizing them files the "#feat" item under
\* features and the "#bug" item under bugs, every other category empty.
C5_TagScenario ==
    (pc = "mkdir" /\ doc = Board /\ column = Done) =>
        /\ items = << FeatItem, BugItem >>
        /\ categories = [c \in CategoryNames |->
                            IF c = Features THEN << FeatItem >>
                            ELSE IF c = Bugs THEN << BugItem >>
                            ELSE <<>>]

\* C5 amended: on the scenario board with column Done extraction yields the
\* two Done items, and categorizeTitles, which tests the literal prefix and
\* so sees "#", files both under other, in order, every other category empty;
\* the Backlog item is in no category (SpecExtract).
C5_PrefixScenario ==
    (pc = "mkdir" /\ doc = Board /\ column = Done) =>
        /\ items = << FeatItem, BugItem >>
        /\ categories = [c \in CategoryNames |->
                            IF c = Other THEN << FeatItem, BugItem >> ELSE <<>>]
        /\ \A c \in CategoryNames : \A i \in 1..Len(categories[c]) :
               categories[c][i] # ScopeItem

C5_Witness ==
    pc = "mkdir" /\ doc = Board /\ column = Done /\ Len(categories[Other]) = 2

-----------------------------------------------------------------------------
(* Properties of extractBulletPoints (checked under SpecBullets).          *)

Digits == {"0", "1", "2", "3", "4", "5", "6", "7", "8", "9"}

\* the recognized prefix of a trimmed line, <<>> when the line does not qualify
RecognizedPrefix(line) ==
    IF HasPrefix(line, DashSpace) THEN DashSpace
    ELSE IF HasPrefix(line, BulletGlyphSpace) THEN BulletGlyphSpace
    ELSE IF Len(line) >= 2 /\ line[1] \in Digits /\ line[2] = "." THEN SubSeq(line, 1, 2)
    ELSE <<>>

StatedBulletOfLine(rawLine) ==
    LET line == TrimSpace(rawLine)
        prefix == RecognizedPrefix(line)
        rest == TrimSpace(SubSeq(line, Len(prefix) + 1, Len(line)))
    IN  IF prefix # <<>> /\ rest # <<>> THEN << rest >> ELSE <<>>

RECURSIVE StatedBullets(_)
StatedBullets(lines) ==
    IF lines = <<>> THEN <<>>
    ELSE StatedBulletOfLine(Head(lines)) \o StatedBullets(Tail(lines))

\* C6: extractBulletPoints returns, in line order, one entry for each line
\* that after trimming starts with "- ", with the bullet glyph and a space, or
\* with a digit and "."; the entry is the line with the whole recognized
\* prefix removed and the rest trimmed; blank entries and other lines are
\* dropped.
C6_BulletsAsStated ==
    pc = "bulleted" => bullets = StatedBullets(Split(text, "\n"))

-----------------------------------------------------------------------------
(* Properties of the whole program (checked under Spec).                   *)

NonEmptyCategories == {c \in DOMAIN categories : Len(categories[c]) > 0}

ReportWritten == \E f \in DOMAIN files : f.base[1] = "worklog-week-"

SomeCallFailed == \E i \in 1..Len(calls) : calls[i].outcome # "reply"

\* C7: summarizeByCategory calls the service only for categories with at
\* least one item; if every call succeeds the returned map's keys are exactly
\* those categories; as soon as a call fails or returns no choices it returns
\* an error and no map, no further call is made, the run ends non-zero and
\* the weekly report is never written.
C7_SummarizeAllOrNothing ==
    /\ \A i \in 1..Len(calls) : calls[i].category \in NonEmptyCategories
    /\ \A i \in 1..(Len(calls) - 1) : calls[i].outcome = "reply"
    /\ (pc = "summarized" /\ sumErr = Nil) => DOMAIN summaries = NonEmptyCategories
    /\ SomeCallFailed =>
          /\ pc \in {"summarized", "exited"}
          /\ sumErr # Nil
          /\ DOMAIN summaries = {}
          /\ ~ReportWritten
          /\ pc = "exited" => exitStatus # 0

\* a call failed after another had succeeded, and the run has ended
C7_Witness ==
    /\ pc = "exited" /\ Len(calls) = 2
    /\ calls[1].outcome = "reply" /\ calls[2].outcome = "nochoices"

CredentialMissing == apiKey = "" /\ envKey = ""

ListingWritten(c) ==
    /\ CategoryFile(outputFolder, c) \in DOMAIN files
    /\ files[CategoryFile(outputFolder, c)] =
           [i \in 1..Len(categories[c]) |-> << i, categories[c][i] >>]

\* C9 as stated: when the credential is missing the process exits non-zero
\* before any I/O beyond argument parsing: at the exit the board has not been
\* read, the output folder has not been created and no listing is written.
C9_ExitsBeforeIO ==
    (pc = "exited" /\ CredentialMissing /\ exitMsg = << "no API key" >>) =>
        /\ exitStatus # 0
        /\ ~boardRead
        /\ dirs = preDirs
        /\ DOMAIN files = {}

\* C9 amended: when the credential is missing the process exits non-zero
\* without any remote call and without writing the weekly report; the
\* credential is tested only after the listings, so at the missing-credential
\* exit the board has been read, the output folder exists and the listing of
\* every non-empty category is written.
C9_ExitsBeforeRemote ==
    /\ CredentialMissing => calls = << >> /\ ~ReportWritten
    /\ (pc = "exited" /\ CredentialMissing) => exitStatus # 0
    /\ (pc = "exited" /\ exitMsg = << "no API key" >>) =>
          /\ CredentialMissing
          /\ exitStatus # 0
          /\ boardRead
          /\ << outputFolder >> \in dirs
          /\ \A c \in NonEmptyCategories : ListingWritten(c)

\* the missing-credential exit, with a listing on disk
C9_Witness ==
    /\ pc = "exited" /\ exitMsg = << "no API key" >>
    /\ DOMAIN files # {}

EnvFault == exitMsg # << >> /\ exitMsg[Len(exitMsg)] = "EIO"

\* C10: on every run whose section is found (and whose I/O the environment
\* does not fail), each of the four categories holding an item gets its
\* listing "{category}_items.txt" with the lines "i. item" in order, all of
\* them before the first remote call; an empty category gets none.
C10_ListingsWritten ==
    /\ (pc = "exited" /\ boardRead /\ foundTargetHeading /\ ~EnvFault) =>
           \A c \in NonEmptyCategories : ListingWritten(c)
    /\ calls # << >> => \A c \in NonEmptyCategories : ListingWritten(c)
    /\ \A c \in CategoryNames :
           Len(categories[c]) = 0 => CategoryFile(outputFolder, c) \notin DOMAIN files

-----------------------------------------------------------------------------
(* Properties of buildMarkdownSummary (checked under SpecBuild).           *)

\* C8: two calls of buildMarkdownSummary with the same arguments return the
\* identical string, the order of the category blocks included.
C8_SameArgumentsSameString ==
    pc = "built2" => summary = summary2

=============================================================================
